---- MODULE Spec2Model ----
(***************************************************************************)
(* Model of the contest reconciliation and ranking engine of               *)
(* movie_bet_bot/models/movies/movies.py: Film, FilmList, Member and       *)
(* Contest.update / Contest.update_standings / Contest.save.               *)
(*                                                                         *)
(* A Film is a record [title, url, runtime]; a FilmList is a record        *)
(* [url, films]; the Contest is the sequence `members` of member names     *)
(* together with the per-member fields list, delta (the attribute          *)
(* _films_since_last_update) and place.  Contest.update is a coroutine:    *)
(* it is cut at its suspension points (the await of FilmList.from_url),    *)
(* one action per atomic segment.                                          *)
(***************************************************************************)
EXTENDS Integers, Sequences, FiniteSets, TLC

\* ------------------------------------------------------------------ bounds
\* members of the contest
NumMembers == 2
\* films of the fetcher's universe
NumFilms == 2
\* FilmList.from_url calls (returning or raising) over the whole run
MaxFetches == 4

Members == 1..NumMembers
FilmIds == 1..NumFilms

\* ------------------------------------------------- the fetcher's universe
\* Film f of the universe: films 1 and 2 carry the same title under two
\* different Letterboxd URLs, so title and url are compared separately.
TitleOf(f) == (f + 1) \div 2

\* Runtime TMDB reports for film f when details are retrieved.
RuntimeOf(f) == (f % 2) + 1

\* Film.runtime default: the unknown-runtime sentinel.
UnknownRuntime == -1

\* FilmList("") : the url of the default list of a Member.
EmptyUrl == 0

\* Member.contest_url of member m (a non-empty url, one per member).
contest_url(m) == m

\* Film.__init__
Film(title, url, runtime) == [title |-> title, url |-> url, runtime |-> runtime]

\* The set FilmList.from_url builds for the films `ids` of a list page:
\* with details every film gets its TMDB runtime, without them every film
\* keeps the sentinel.
FetchedFilms(ids, details) ==
    { Film(TitleOf(f), f, IF details THEN RuntimeOf(f) ELSE UnknownRuntime) : f \in ids }

FilmSets == { FetchedFilms(ids, d) : ids \in SUBSET FilmIds, d \in BOOLEAN }

\* ------------------------------------------------------------ Film / FilmList
\* Film.__eq__ (and __hash__): identity is (title, url) only.
FilmEq(a, b) == a.title = b.title /\ a.url = b.url

\* `x in s` for a Python set of Film
FilmIn(x, s) == \E g \in s : FilmEq(x, g)

\* a set comparison that only looks at the sizes
FilmSetEqByLen(s, t) == Cardinality(s) = Cardinality(t)

\* s == t for Python sets of Film
FilmSetEq(s, t) == Cardinality(s) = Cardinality(t) /\ \A f \in s : FilmIn(f, t)

\* s - t for Python sets of Film: the elements of s, not those of t
FilmSetDiff(s, t) == { f \in s : ~FilmIn(f, t) }

\* FilmList.__init__
FilmList(url, films) == [url |-> url, films |-> films]

\* FilmList.__eq__
FilmListEq(a, b) == a.url = b.url /\ FilmSetEq(a.films, b.films)

\* sum([film.runtime for film in films])
RECURSIVE SumRuntime(_)
SumRuntime(films) ==
    IF films = {} THEN 0
    ELSE LET f == CHOOSE x \in films : TRUE
         IN  f.runtime + SumRuntime(films \ {f})

\* ------------------------------------------------------------------ state
VARIABLES
    members,        \* Contest.members: sequence of member names (the ranking)
    list,           \* Member.list, per member
    delta,          \* Member._films_since_last_update, per member
    place,          \* Member._place, per member
    pc,             \* position of Contest.update: "idle", "fetch", "rank"
    idx,            \* index of the member the for loop is at
    is_changed,     \* local is_changed of Contest.update
    save_on_update, \* parameter of Contest.update
    member_last,    \* member_last.list of each member reconciled this cycle
    snap,           \* the FilmList fetched for each member this cycle
    fetchedLast,    \* members whose fetch succeeded in the previous cycle
    failed,         \* member whose fetch raised this cycle (0: none)
    saveCalled,     \* Contest.save was called this cycle
    saveError,      \* Contest.save caught an OSError this cycle
    outcome,        \* what the caller of update() observed
    fetches         \* number of FilmList.from_url calls made so far

vars == <<members, list, delta, place, pc, idx, is_changed, save_on_update,
          member_last, snap, fetchedLast, failed, saveCalled, saveError, outcome,
          fetches>>

\* marker for "no list recorded"
NoList == [url |-> -1, films |-> {}]

Pending == [kind |-> "none", value |-> FALSE]
Returned(v) == [kind |-> "return", value |-> v]
Raised == [kind |-> "raise", value |-> FALSE]

\* ----------------------------------------------------------------- Member
\* Member.num_films_watched
num_films_watched(m) == Cardinality(list[m].films)

\* Member.watchtime
watchtime(m) == SumRuntime(list[m].films)

\* Member.num_films_since_last_update
num_films_since_last_update(m) == Cardinality(delta[m])

\* an update_films that subtracts the wrong way round
update_films_reversed(new, update) == FilmSetDiff(update, new.films)

\* Member.update_films, called on a member whose list is already `new`
update_films(new, update) == FilmSetDiff(new.films, update)

\* ---------------------------------------------------------------- ranking
\* a sort key without the secondary component
SortKeyCountOnly(m) == <<num_films_watched(m), 0>>

\* key=lambda x: (x.num_films_watched, x.watchtime)
SortKey(m) == <<num_films_watched(m), watchtime(m)>>

\* tuple comparison a < b
KeyLess(a, b) == a[1] < b[1] \/ (a[1] = b[1] /\ a[2] < b[2])

ReverseSeq(s) == [i \in 1..Len(s) |-> s[Len(s) + 1 - i]]

\* stable insertion of x into the ascending sequence t: x goes behind every
\* element whose key is not greater than its own
RECURSIVE InsertAsc(_, _)
InsertAsc(x, t) ==
    IF t = <<>> THEN <<x>>
    ELSE IF KeyLess(SortKey(x), SortKey(Head(t))) THEN <<x>> \o t
    ELSE <<Head(t)>> \o InsertAsc(x, Tail(t))

RECURSIVE StableSortAsc(_)
StableSortAsc(s) ==
    IF s = <<>> THEN <<>>
    ELSE InsertAsc(s[Len(s)], StableSortAsc(SubSeq(s, 1, Len(s) - 1)))

\* a descending sort that is not stable: equal keys come out reversed
SortReversingTies(s) == ReverseSeq(StableSortAsc(s))

\* list.sort(key=..., reverse=True): reverse, sort stably, reverse
ListSortReverse(s) == ReverseSeq(StableSortAsc(ReverseSeq(s)))

\* Contest.update_standings: place 1, 2, ... down the list
Standings(ms) == [m \in Members |-> CHOOSE i \in 1..Len(ms) : ms[i] = m]

\* ------------------------------------------------------------------- Init
\* A Contest built by Contest.from_config / Contest.load: members in
\* configuration order, each with the default list FilmList("") or a list
\* seeded from stored data under its contest url; no delta, no place yet.
Init ==
    /\ members = [i \in Members |-> i]
    /\ \E seeded \in SUBSET Members :
          list = [m \in Members |-> IF m \in seeded THEN FilmList(contest_url(m), {})
                                                    ELSE FilmList(EmptyUrl, {})]
    /\ delta = [m \in Members |-> {}]
    /\ place = [m \in Members |-> -1]
    /\ pc = "idle"
    /\ idx = 0
    /\ is_changed = FALSE
    /\ save_on_update = TRUE
    /\ member_last = [m \in Members |-> NoList]
    /\ snap = [m \in Members |-> NoList]
    /\ fetchedLast = {}
    /\ failed = 0
    /\ saveCalled = FALSE
    /\ saveError = FALSE
    /\ outcome = Pending
    /\ fetches = 0

\* ---------------------------------------------------------------- actions
\* Contest.update up to the first await
UpdateStart(sou) ==
    /\ pc = "idle"
    /\ pc' = "fetch"
    /\ idx' = 1
    /\ is_changed' = FALSE
    /\ save_on_update' = sou
    /\ member_last' = [m \in Members |-> NoList]
    /\ snap' = [m \in Members |-> NoList]
    /\ fetchedLast' = {m \in Members : snap[m] # NoList}
    /\ failed' = 0
    /\ saveCalled' = FALSE
    /\ saveError' = FALSE
    /\ outcome' = Pending
    /\ UNCHANGED <<members, list, delta, place, fetches>>

\* a loop body that also numbers the member it has just reconciled
FetchOkEagerPlace(films) ==
    /\ pc = "fetch"
    /\ fetches < MaxFetches
    /\ fetches' = fetches + 1
    /\ LET m == members[idx]
           old == list[m]
           new == FilmList(contest_url(m), films)
           ne == ~FilmListEq(new, old)
       IN  /\ list' = [list EXCEPT ![m] = new]
           /\ member_last' = [member_last EXCEPT ![m] = old]
           /\ snap' = [snap EXCEPT ![m] = new]
           /\ is_changed' = (is_changed \/ ne)
           /\ delta' = IF ne THEN [delta EXCEPT ![m] = update_films(new, old.films)]
                       ELSE delta
           /\ place' = [place EXCEPT ![m] = idx]
    /\ idx' = idx + 1
    /\ pc' = IF idx = Len(members) THEN "rank" ELSE "fetch"
    /\ UNCHANGED <<members, save_on_update, fetchedLast, failed,
                   saveCalled, saveError, outcome>>

\* FilmList.from_url returns `films` for the member the loop is at; the loop
\* body runs to the next await (or to the end of the loop)
FetchOk(films) ==
    /\ pc = "fetch"
    /\ fetches < MaxFetches
    /\ fetches' = fetches + 1
    /\ LET m == members[idx]
           old == list[m]
           new == FilmList(contest_url(m), films)
           ne == ~FilmListEq(new, old)
       IN  /\ list' = [list EXCEPT ![m] = new]
           /\ member_last' = [member_last EXCEPT ![m] = old]
           /\ snap' = [snap EXCEPT ![m] = new]
           /\ is_changed' = (is_changed \/ ne)
           /\ delta' = IF ne THEN [delta EXCEPT ![m] = update_films(new, old.films)]
                       ELSE delta
    /\ idx' = idx + 1
    /\ pc' = IF idx = Len(members) THEN "rank" ELSE "fetch"
    /\ UNCHANGED <<members, place, save_on_update, fetchedLast, failed,
                   saveCalled, saveError, outcome>>

\* FilmList.from_url raises: nothing in Contest.update catches it
FetchFail ==
    /\ pc = "fetch"
    /\ fetches < MaxFetches
    /\ fetches' = fetches + 1
    /\ failed' = members[idx]
    /\ outcome' = Raised
    /\ pc' = "idle"
    /\ UNCHANGED <<members, list, delta, place, idx, is_changed, save_on_update,
                   member_last, snap, fetchedLast, saveCalled, saveError>>

\* a Contest.save without its except clause: the OSError leaves update()
FinishSaveRaises(ioerr) ==
    /\ pc = "rank"
    /\ members' = ListSortReverse(members)
    /\ saveCalled' = (save_on_update /\ is_changed)
    /\ saveError' = (save_on_update /\ is_changed /\ ioerr)
    /\ place' = IF saveError' THEN place ELSE Standings(members')
    /\ outcome' = IF saveError' THEN Raised ELSE Returned(is_changed)
    /\ pc' = "idle"
    /\ UNCHANGED <<list, delta, idx, is_changed, save_on_update, member_last,
                   snap, fetchedLast, failed, fetches>>

\* the rest of Contest.update after the loop: sort, save, update_standings,
\* return.  `ioerr`: the write of Contest.save raises OSError, which save
\* catches and logs.
Finish(ioerr) ==
    /\ pc = "rank"
    /\ members' = ListSortReverse(members)
    /\ saveCalled' = (save_on_update /\ is_changed)
    /\ saveError' = (save_on_update /\ is_changed /\ ioerr)
    /\ place' = Standings(members')
    /\ outcome' = Returned(is_changed)
    /\ pc' = "idle"
    /\ UNCHANGED <<list, delta, idx, is_changed, save_on_update, member_last,
                   snap, fetchedLast, failed, fetches>>

Next ==
    \/ \E sou \in BOOLEAN : UpdateStart(sou)
    \/ \E films \in FilmSets : FetchOk(films)
    \/ FetchFail
    \/ \E ioerr \in BOOLEAN : Finish(ioerr)

Spec == Init /\ [][Next]_vars

\* ------------------------------------------------- vocabulary of the claims
\* (title, sourceRef) identities of a set of films
Identities(films) == { <<f.title, f.url>> : f \in films }

\* member m was reconciled in the current cycle
Reconciled(m) == snap[m] # NoList

\* the snapshot fetched for m is unequal to its previous one: source url or
\* film identity set
SnapshotUnequal(m) ==
    \/ snap[m].url # member_last[m].url
    \/ Identities(snap[m].films) # Identities(member_last[m].films)

\* position of member m in the sequence ms
Pos(ms, m) == CHOOSE i \in 1..Len(ms) : ms[i] = m

\* the members list is in descending (filmCount, watchtime) order
RankOrdered ==
    \A i, j \in 1..Len(members) :
        i < j =>
            \/ num_films_watched(members[i]) > num_films_watched(members[j])
            \/ /\ num_films_watched(members[i]) = num_films_watched(members[j])
               /\ watchtime(members[i]) >= watchtime(members[j])

\* every place is the 1-based position in the members list
PlacesDense == \A i \in 1..Len(members) : place[members[i]] = i

\* update() returned to its caller
Completed == pc = "idle" /\ outcome.kind = "return"

\* sum of the known runtimes of a set of films, unknown counting 0
RECURSIVE SumKnownRuntime(_)
SumKnownRuntime(films) ==
    IF films = {} THEN 0
    ELSE LET f == CHOOSE x \in films : TRUE
         IN  (IF f.runtime = UnknownRuntime THEN 0 ELSE f.runtime)
             + SumKnownRuntime(films \ {f})

\* ------------------------------------------------------------------ claims

\* C1: if the fetch fails for one member M and succeeds for the others, no
\* exception escapes update(): it returns the OR of the other members'
\* changed flags, every other member is reconciled, the members are ranked,
\* and M's snapshot and delta are untouched.
C1_PartialFailureTolerated ==
    (pc = "idle" /\ failed # 0) =>
        /\ outcome.kind = "return"
        /\ \A m \in Members \ {failed} : Reconciled(m) /\ list[m] = snap[m]
        /\ outcome.value = (\E m \in Members \ {failed} : SnapshotUnequal(m))
        /\ RankOrdered /\ PlacesDense
        /\ ~Reconciled(failed)

\* C2: when two consecutive cycles fetch the same snapshot S for a member,
\* the second cycle finds the member unchanged and leaves it with an empty
\* filmsSinceLastUpdate.
C2_Idempotent ==
    \A m \in Members :
        (Reconciled(m) /\ m \in fetchedLast /\ snap[m] = member_last[m]) =>
            /\ ~SnapshotUnequal(m)
            /\ delta[m] = {}
            /\ num_films_since_last_update(m) = 0

\* C3: in every update cycle update() returns true iff some member's newly
\* fetched snapshot is unequal (url or film identity set) to its previous
\* snapshot, and the store is written in that cycle iff save_on_update is
\* set and that value is true; a cycle without a changed snapshot performs
\* no write.
C3_ChangeGatedSave ==
    (pc = "idle" /\ outcome.kind # "none") =>
        LET anyChanged == \E m \in Members : Reconciled(m) /\ SnapshotUnequal(m)
        IN  /\ (outcome = Returned(TRUE)) = anyChanged
            /\ saveCalled = (save_on_update /\ anyChanged)

\* Lemma: the gate itself is as described in every cycle in which update()
\* returns: the value returned is the OR of the members' changes and save()
\* is called iff save_on_update is set and that value is true.
ChangeGateOnReturn ==
    /\ Completed =>
          /\ outcome.value = (\E m \in Members : SnapshotUnequal(m))
          /\ saveCalled = (save_on_update /\ outcome.value)
    /\ saveCalled => \E m \in Members : Reconciled(m) /\ SnapshotUnequal(m)
    /\ saveError => saveCalled

\* C4: after every completed update() the members list is in descending
\* filmCount order, ties in descending watchtime order, and every member's
\* place is its 1-based position in the list.
C4_Ranked == Completed => (RankOrdered /\ PlacesDense)

\* a completed update that moved a member with the same film count but more
\* watchtime in front of a member that was configured before it
C4_Witness ==
    /\ Completed
    /\ \E i, j \in 1..Len(members) :
          /\ i < j /\ members[i] > members[j]
          /\ num_films_watched(members[i]) = num_films_watched(members[j])
          /\ num_films_watched(members[i]) > 0
          /\ watchtime(members[i]) > watchtime(members[j])
          /\ place[members[i]] = i /\ place[members[j]] = j

\* C5: members whose (filmCount, watchtime) keys are equal after
\* reconciliation keep, through the sort of update(), the relative order
\* they had before it.
C5_StableTies ==
    [][pc = "rank" =>
          \A i, j \in 1..Len(members) :
              (i < j /\ SortKey(members[i]) = SortKey(members[j])) =>
                  Pos(members', members[i]) < Pos(members', members[j])]_vars

\* a completed second cycle in which two tied members with films stand in
\* the order the first cycle gave them, the reverse of the configured one
C5_Witness ==
    /\ Completed /\ fetchedLast = Members
    /\ \E i, j \in 1..Len(members) :
          /\ i < j /\ members[i] > members[j]
          /\ SortKey(members[i]) = SortKey(members[j])
          /\ num_films_watched(members[i]) > 0

\* C6: in a cycle where the fetched snapshot N of a member differs from its
\* previous snapshot P, the member's snapshot is N and filmsSinceLastUpdate
\* is exactly the films of N whose (title, sourceRef) is not in P.
C6_ForwardDelta ==
    \A m \in Members :
        (Reconciled(m) /\ SnapshotUnequal(m)) =>
            /\ list[m] = snap[m]
            /\ delta[m] = { f \in snap[m].films :
                              <<f.title, f.url>> \notin Identities(member_last[m].films) }

\* a fetch that only dropped films: changed, with an empty delta
C6_Witness ==
    \E m \in Members :
        /\ Reconciled(m) /\ SnapshotUnequal(m)
        /\ snap[m].url = member_last[m].url
        /\ Identities(snap[m].films) \subseteq Identities(member_last[m].films)
        /\ snap[m].films # {}
        /\ delta[m] = {}

\* C7: in every reachable state each member's filmsSinceLastUpdate is a
\* subset, by (title, sourceRef), of the member's current snapshot.
C7_DeltaSubset ==
    \A m \in Members : Identities(delta[m]) \subseteq Identities(list[m].films)

\* a delta kept over an unchanged cycle: its films are in the current
\* snapshot by identity only (the snapshot holds other runtimes)
C7_Witness ==
    \E m \in Members :
        /\ Reconciled(m) /\ ~SnapshotUnequal(m)
        /\ delta[m] # {}
        /\ ~(delta[m] \subseteq list[m].films)

\* C8: a member's watchtime is the sum of the known runtimes of its films,
\* an unknown runtime (-1) contributing 0, and is never negative.
C8_UnknownRuntimeCountsZero ==
    \A m \in Members :
        /\ watchtime(m) = SumKnownRuntime(list[m].films)
        /\ watchtime(m) >= 0

\* C9 as stated: when the store write fails, update() completes with the
\* members reconciled and ranked, and what the caller receives differs from
\* the plain changed result of a successful save.
C9_SaveFailureReported ==
    saveError =>
        /\ Completed
        /\ RankOrdered /\ PlacesDense
        /\ outcome # Returned(TRUE)

\* C9 amended: when the store write fails with an OSError, update()
\* completes with the members reconciled and ranked as after a successful
\* write, and the caller receives only the changed result True.
C9_SaveFailureSwallowed ==
    saveError =>
        /\ Completed
        /\ \A m \in Members : Reconciled(m) /\ list[m] = snap[m]
        /\ RankOrdered /\ PlacesDense
        /\ members = ListSortReverse(members) /\ place = Standings(members)
        /\ outcome = Returned(TRUE)

\* a completed cycle whose store write failed
C9_Witness == Completed /\ saveCalled /\ saveError /\ is_changed

\* C10: while fetches of a cycle are outstanding the order of the members
\* list and all places stay as they are; they change only in the step after
\* the last fetch of the cycle, and that one step (no suspension inside it)
\* both sorts the list and assigns the places.
C10_RankOnceAfterFetches ==
    [][/\ pc = "fetch" => (members' = members /\ place' = place)
       /\ (members' # members \/ place' # place) =>
             /\ pc = "rank" /\ idx = Len(members) + 1
             /\ \A m \in Members : Reconciled(m)
       /\ pc = "rank" =>
             /\ pc' = "idle"
             /\ RankOrdered' /\ PlacesDense']_vars

\* a later cycle suspended in a fetch: the members already reconciled make
\* the list out of rank order, and list order and places are still those of
\* the previous update
C10_Witness ==
    /\ pc = "fetch" /\ idx > 1 /\ fetchedLast = Members
    /\ ~RankOrdered
    /\ PlacesDense

====
